---- MODULE Spec2Model ----
(***************************************************************************)
(* GitHub Notifications Redux (GNOME Shell extension): the polling and     *)
(* reconciliation engine of extension.js as a state machine.               *)
(*                                                                         *)
(* One action per GNOME main-loop dispatch: enable(), disable(), the       *)
(* GSettings 'changed' handler, the 'Refresh Now' and 'Mark All Read' menu *)
(* actions, the opening of the menu, a click on a row or on its 'Mark as   *)
(* read' button, a GLib timeout callback, and the resumption of            *)
(* _fetchNotifications, _markAllRead, _markThreadRead and                  *)
(* _openSingleNotification after their await.  JavaScript is single        *)
(* threaded, so each of these runs to its next await without interleaving. *)
(***************************************************************************)
EXTENDS Integers, Sequences, FiniteSets, TLC

\* ------------------------------------------------------------------ bounds
\* Timers live in the GLib main loop plus list requests awaiting a response.
MaxPending == 2
\* Cap on _retryAttempts (the code lets it grow without bound).
MaxRetry == 3
\* Largest retry count at which the delay function is evaluated on its own.
MaxDelayRetry == 9
\* Longest list whose grouping is computed on its own.
MaxGroupLen == 3

\* ------------------------------------------------------- program constants
RETRY_INTERVALS == <<60, 120, 240, 480, 960, 1920, 3600>>
DEFAULT_GITHUB_INTERVAL == 60
SETTLE_DELAY == 5
MAX_MENU_ITEMS == 25

\* ------------------------------------------------------------ input domains
\* GSettings values that the preferences window can write.
Tokens == {"", "ghp"}
\* Host names typed into the 'domain' entry row; "[" stands for the texts
\* with which https://DOMAIN/api/v3/notifications is not a parsable URI.
Domains == {"github.com", "["}
RefreshIntervals == {60, 300}
\* Keys of the GSettings schema that the 'changed' handler can be told about.
SettingKeys == {"domain", "token", "refresh-interval", "show-alert", "hide-widget"}
\* X-Poll-Interval header values, as sequences of characters; << >> is an
\* absent (null) or empty header.
PollHeaders == { <<>>, <<"a">>, <<"3","0">>, <<"1","2","0">> }
\* Notification lists the server returns (items are thread ids).
ServerLists == { <<>>, <<1>>, <<2, 1>>, <<3, 1, 2>> }

\* Response bodies of a list request.
Bodies ==
    { [kind |-> "none", items |-> <<>>],       \* bytes or bytes.get_data() is null
      [kind |-> "garbage", items |-> <<>>],    \* text JSON.parse rejects
      [kind |-> "object", items |-> <<>>] }    \* valid JSON, not an array
    \cup { [kind |-> "array", items |-> L] : L \in ServerLists }

\* Everything send_and_read_async can resolve to: a rejection (transport
\* error, including the cancellation raised by Soup.Session.abort()), or a
\* response with a status; only a 200 carries the header and body read here.
Outcomes ==
    { [type |-> "error", status |-> 0, header |-> <<>>,
       body |-> [kind |-> "none", items |-> <<>>]] }
    \cup { [type |-> "response", status |-> s, header |-> <<>>,
            body |-> [kind |-> "none", items |-> <<>>]] : s \in {401, 500} }
    \cup { [type |-> "response", status |-> 200, header |-> h, body |-> b] :
             h \in PollHeaders, b \in Bodies }

\* Everything send_and_read_async can resolve to for a mark-read request
\* (PUT notifications, PATCH notifications/threads/ID): a rejection, or a
\* response with a status.
MarkStatuses == {200, 204, 205, 404}
MarkOutcomes ==
    { [type |-> "error", status |-> 0] }
    \cup { [type |-> "response", status |-> s] : s \in MarkStatuses }

NoLabel == "null"

VARIABLES
    enabled,          \* between enable() and disable()
    token,            \* this._token
    domain,           \* this._domain
    refreshInterval,  \* this._refreshInterval
    showAlert,        \* this._showAlert
    hideWidget,       \* this._hideWidget
    notifications,    \* this._notifications
    githubInterval,   \* this._githubInterval
    retryAttempts,    \* this._retryAttempts
    timeoutId,        \* this._timeoutId (0 is null)
    httpSession,      \* this._httpSession: 1 a Soup.Session, 0 null
    timers,           \* ids of the live GLib timeout sources
    armedDelay,       \* seconds the last step passed to GLib.timeout_add_seconds, 0 if it armed no timer
    inflight,         \* requests awaiting their response, in issue order
    label,            \* text of this._label, NoLabel when this._label is null
    indicator,        \* "null", "visible" or "hidden"
    alert,            \* count carried by the desktop alert of the last step, 0 if none
    menu,             \* thread ids of the rows of this._notifSection, in display order
    appliedCount,     \* history: length of the list of the last list fetch applied since enable(), 0 if none
    last              \* the last step: [op, res]

vars == <<enabled, token, domain, refreshInterval, showAlert, hideWidget,
          notifications, githubInterval, retryAttempts, timeoutId, httpSession,
          timers, armedDelay, inflight, label, indicator, alert, menu,
          appliedCount, last>>

\* ------------------------------------------------------------ pure helpers
Max(a, b) == IF a >= b THEN a ELSE b
Min(a, b) == IF a <= b THEN a ELSE b

Digits == {"0", "1", "2", "3", "4", "5", "6", "7", "8", "9"}

DigitVal(c) ==
    CASE c = "0" -> 0 [] c = "1" -> 1 [] c = "2" -> 2 [] c = "3" -> 3
      [] c = "4" -> 4 [] c = "5" -> 5 [] c = "6" -> 6 [] c = "7" -> 7
      [] c = "8" -> 8 [] c = "9" -> 9

RECURSIVE ParseDigits(_, _)
\* Value of the longest prefix of digits of s, continuing from acc.
ParseDigits(s, acc) ==
    IF s = <<>> \/ Head(s) \notin Digits THEN acc
    ELSE ParseDigits(Tail(s), 10 * acc + DigitVal(Head(s)))

\* parseInt(s, 10): << n >>, or << >> for NaN (no leading digit).
ParseInt(s) ==
    IF s = <<>> \/ Head(s) \notin Digits THEN <<>> ELSE <<ParseDigits(s, 0)>>

\* parseInt(pollInterval, 10) || 60 : NaN and 0 are falsy.
PollIntervalOf(h) ==
    LET n == ParseInt(h)
    IN IF n = <<>> \/ n[1] = 0 THEN DEFAULT_GITHUB_INTERVAL ELSE n[1]

\* A back-off table read modulo its length instead of clamped at its end.
GetEffectiveIntervalWrapping(retry, refresh, gh) ==
    LET interval == IF retry > 0
                    THEN RETRY_INTERVALS[((retry - 1) % Len(RETRY_INTERVALS)) + 1]
                    ELSE refresh
    IN Max(interval, gh)

\* _getEffectiveInterval()
GetEffectiveInterval(retry, refresh, gh) ==
    LET interval == IF retry > 0
                    THEN RETRY_INTERVALS[Min(retry - 1, Len(RETRY_INTERVALS) - 1) + 1]
                    ELSE refresh
    IN Max(interval, gh)

\* A visibility that follows the count alone, whatever the auto-hide setting.
VisibilityOfCountOnly(hide, notifs) ==
    IF Len(notifs) > 0 THEN "visible" ELSE "hidden"

\* _updateVisibility(): this._indicator.visible
Visibility(hide, notifs) ==
    IF ~hide \/ Len(notifs) > 0 THEN "visible" ELSE "hidden"

\* ------------------------------------------------- the scheduler's helpers
\* The part of the state the scheduling helpers read and write.
Poll == [retryAttempts |-> retryAttempts, timers |-> timers, armedDelay |-> 0,
         timeoutId |-> timeoutId, inflight |-> inflight]

Commit(p) ==
    /\ retryAttempts' = p.retryAttempts
    /\ timers' = p.timers
    /\ armedDelay' = p.armedDelay
    /\ timeoutId' = p.timeoutId
    /\ inflight' = p.inflight

\* GLib.timeout_add_seconds: a fresh source id.
NewTimerId(tm) ==
    CHOOSE i \in 1..(Cardinality(tm) + 1) :
        /\ i \notin tm
        /\ \A j \in 1..(i - 1) : j \in tm

\* _stopLoop()
StopLoop(p) ==
    IF p.timeoutId # 0
    THEN [p EXCEPT !.timers = @ \ {p.timeoutId}, !.timeoutId = 0]
    ELSE p

\* _scheduleFetch(delaySecs, isRetry)
ScheduleFetch(p, delaySecs, isRetry) ==
    LET r == IF isRetry THEN p.retryAttempts + 1 ELSE 0
        q == StopLoop(p)
        id == NewTimerId(q.timers)
    IN [q EXCEPT !.retryAttempts = r,
                 !.timers = @ \cup {id},
                 !.armedDelay = delaySecs,
                 !.timeoutId = id]

\* Soup.Message.new('GET', _buildApiUrl()) is a message, not null: the URL
\* built from the domain parses.
MessageNew(dom) == dom # "["

\* _fetchNotifications() up to its await: the request is skipped and a timer
\* armed; or the message is null and message.get_request_headers() throws
\* before the try block, which rejects the promise that no caller awaits;
\* or the request is sent on the current session.
FetchNotifications(p, tok, dom, sess, refresh, gh) ==
    IF tok = "" \/ sess = 0
    THEN ScheduleFetch(p, GetEffectiveInterval(p.retryAttempts, refresh, gh), FALSE)
    ELSE IF ~MessageNew(dom) THEN p
    ELSE [p EXCEPT !.inflight = Append(@, [kind |-> "list", aborted |-> FALSE])]

\* new Soup.Session(): a session object (sessions differ only in the requests
\* pending on them, which Abort marks).
NewSession == 1

\* Soup.Session.abort(): every request pending on the session is cancelled.
Abort(reqs) == [i \in 1..Len(reqs) |-> [reqs[i] EXCEPT !.aborted = TRUE]]

\* A session replaced without abort() being called on the old one.
InitHttpWithoutAbort(p, sess) == p

\* _initHttp()
InitHttp(p, sess) ==
    IF sess # 0 THEN [p EXCEPT !.inflight = Abort(@)] ELSE p

Pending(p) == Cardinality(p.timers) + Len(p.inflight)

RemoveAt(s, i) == SubSeq(s, 1, i - 1) \o SubSeq(s, i + 1, Len(s))

Last(op, res) == [op |-> op, res |-> res]

\* ------------------------------------------------------------------- Init
\* The extension object as constructed: enable() has not run.
Init ==
    /\ enabled = FALSE
    /\ token = ""
    /\ domain = "github.com"
    /\ refreshInterval = 60
    /\ showAlert = FALSE
    /\ hideWidget = FALSE
    /\ notifications = <<>>
    /\ githubInterval = DEFAULT_GITHUB_INTERVAL
    /\ retryAttempts = 0
    /\ timeoutId = 0
    /\ httpSession = 0
    /\ timers = {}
    /\ armedDelay = 0
    /\ inflight = <<>>
    /\ label = NoLabel
    /\ indicator = "null"
    /\ alert = 0
    /\ menu = <<>>
    /\ appliedCount = 0
    /\ last = Last("init", "none")

\* ---------------------------------------------------------------- actions
\* What a call of _fetchNotifications that led to p did.
Sent(p) ==
    IF Len(p.inflight) > Len(inflight) THEN "sent"
    ELSE IF p.armedDelay > 0 THEN "skipped"
    ELSE "threw"

\* A reset that forgets the timer handle and keeps the retry counter.
ResetPollKeepingRetry(p) == [p EXCEPT !.timeoutId = 0]

\* enable(): this._retryAttempts = 0; this._timeoutId = null
ResetPoll(p) == [p EXCEPT !.retryAttempts = 0, !.timeoutId = 0]

\* enable(), with the values tok, dom, refresh, show, hide that
\* _loadSettings() finds in the GSettings store.
Enable(tok, dom, refresh, show, hide) ==
    /\ ~enabled
    /\ Pending(Poll) < MaxPending
    /\ LET sess == NewSession
           p0 == ResetPoll(Poll)
           p1 == FetchNotifications(InitHttp(p0, 0), tok, dom, sess, refresh,
                                    DEFAULT_GITHUB_INTERVAL)
       IN /\ Commit(p1)
          /\ httpSession' = sess
          /\ last' = Last("enable", Sent(p1))
    /\ enabled' = TRUE
    /\ notifications' = <<>>
    /\ githubInterval' = DEFAULT_GITHUB_INTERVAL
    /\ token' = tok
    /\ domain' = dom
    /\ refreshInterval' = refresh
    /\ showAlert' = show
    /\ hideWidget' = hide
    /\ label' = "0"
    /\ indicator' = Visibility(hide, <<>>)
    /\ alert' = 0
    /\ appliedCount' = 0
    /\ menu' = <<>>

\* disable()
Disable ==
    /\ enabled
    /\ Commit([StopLoop(Poll) EXCEPT !.inflight = Abort(@)])
    /\ enabled' = FALSE
    /\ label' = NoLabel
    /\ indicator' = "null"
    /\ httpSession' = 0
    /\ notifications' = <<>>
    /\ alert' = 0
    /\ appliedCount' = 0
    /\ menu' = <<>>
    /\ last' = Last("disable", "none")
    /\ UNCHANGED <<token, domain, refreshInterval, showAlert, hideWidget,
                   githubInterval>>

\* The 'changed' handler connected in enable(), run for a write of key that
\* leaves tok, dom, refresh, show, hide in the GSettings store.
SettingsChanged(key, tok, dom, refresh, show, hide) ==
    /\ enabled
    /\ key # "token" => tok = token
    /\ key # "domain" => dom = domain
    /\ key # "refresh-interval" => refresh = refreshInterval
    /\ key # "show-alert" => show = showAlert
    /\ key # "hide-widget" => hide = hideWidget
    /\ LET creds == key \in {"domain", "token"}
           p0 == IF creds THEN InitHttp(Poll, httpSession) ELSE Poll
           p1 == ScheduleFetch(StopLoop(p0), SETTLE_DELAY, FALSE)
       IN /\ Pending(p1) <= MaxPending
          /\ httpSession' = IF creds THEN NewSession ELSE httpSession
          /\ Commit(p1)
          /\ last' = Last("settings", IF creds THEN "credentials" ELSE "other")
    /\ token' = tok
    /\ domain' = dom
    /\ refreshInterval' = refresh
    /\ showAlert' = show
    /\ hideWidget' = hide
    /\ indicator' = Visibility(hide, notifications)
    /\ alert' = 0
    /\ appliedCount' = appliedCount
    /\ UNCHANGED <<enabled, notifications, githubInterval, label, menu>>

\* The 'Refresh Now' menu action.
RefreshNow ==
    /\ enabled
    /\ LET p == FetchNotifications(StopLoop(Poll), token, domain, httpSession,
                                   refreshInterval, githubInterval)
       IN /\ Pending(p) <= MaxPending
          /\ Commit(p)
          /\ last' = Last("refresh", Sent(p))
    /\ alert' = 0
    /\ appliedCount' = appliedCount
    /\ UNCHANGED <<enabled, token, domain, refreshInterval, showAlert, hideWidget,
                   notifications, githubInterval, httpSession, label, indicator,
                   menu>>

\* The callback of the GLib timeout source t: _fetchNotifications() runs to
\* its await, then this._timeoutId = null; returning SOURCE_REMOVE destroys
\* the source t itself.
TimerFire(t) ==
    /\ t \in timers
    /\ LET p0 == [Poll EXCEPT !.timers = @ \ {t}]
           p1 == FetchNotifications(p0, token, domain, httpSession,
                                    refreshInterval, githubInterval)
           p2 == [p1 EXCEPT !.timeoutId = 0]
       IN /\ last' = Last("timer", Sent(p1))
          /\ Commit(p2)
    /\ alert' = 0
    /\ appliedCount' = appliedCount
    /\ UNCHANGED <<enabled, token, domain, refreshInterval, showAlert, hideWidget,
                   notifications, githubInterval, httpSession, label, indicator,
                   menu>>

\* A classification without the Array.isArray test: any parsed JSON is
\* taken for the list.
ClassifyAnyJsonAsList(o, sess) ==
    CASE o.type = "error" -> "error"
      [] o.type = "response" /\ sess = 0 -> "dropped"
      [] o.type = "response" /\ sess # 0 /\ o.status = 200 ->
            (CASE o.body.kind = "none" -> "nobody"
               [] o.body.kind = "garbage" -> "unparsable"
               [] OTHER -> "array")
      [] o.type = "response" /\ sess # 0 /\ o.status = 401 -> "401"
      [] OTHER -> "http"

\* How _fetchNotifications classifies what its await produced.
Classify(o, sess) ==
    CASE o.type = "error" -> "error"
      [] o.type = "response" /\ sess = 0 -> "dropped"
      [] o.type = "response" /\ sess # 0 /\ o.status = 200 ->
            (CASE o.body.kind = "none" -> "nobody"
               [] o.body.kind = "garbage" -> "unparsable"
               [] o.body.kind = "object" -> "nonarray"
               [] o.body.kind = "array" -> "array")
      [] o.type = "response" /\ sess # 0 /\ o.status = 401 -> "401"
      [] OTHER -> "http"

\* The classes after which _scheduleFetch is called with isRetry = true.
RetryClasses == {"error", "unparsable", "401", "http"}

\* An alert sent whenever the count changes, not only when it grows.
AlertOfAnyChange(data, previous, show) ==
    IF Len(data) # Len(previous) /\ show THEN Len(data) ELSE 0

\* An alert measured against the list of the last fetch applied instead of
\* against the list cached now.
AlertOfSinceLastFetch(data, previous, show) ==
    IF Len(data) > appliedCount /\ show THEN Len(data) ELSE 0

\* _updateNotifications(data): the alert it sends, 0 if none.
AlertOf(data, previous, show) ==
    IF Len(data) > Len(previous) /\ show THEN Len(data) ELSE 0

\* A cache that keeps the items a new list no longer has.
UpdateNotificationsMerging(previous, data) ==
    data \o SelectSeq(previous, LAMBDA n : \A k \in 1..Len(data) : data[k] # n)

\* A cache to which every new list is appended.
UpdateNotificationsAppending(previous, data) == previous \o data

\* _updateNotifications(data): this._notifications = data
UpdateNotifications(previous, data) == data

\* _fetchNotifications() resumed after its await, for the i-th pending
\* request and the outcome o.
ListDone(i, o) ==
    /\ i \in 1..Len(inflight)
    /\ inflight[i].kind = "list"
    /\ LET c == Classify(o, httpSession)
           p0 == [Poll EXCEPT !.inflight = RemoveAt(@, i)]
           gh == IF c \in {"nobody", "unparsable", "nonarray", "array"} /\ o.header # <<>>
                 THEN PollIntervalOf(o.header) ELSE githubInterval
           delay == GetEffectiveInterval(retryAttempts, refreshInterval, gh)
           p1 == IF c = "dropped" THEN p0
                 ELSE ScheduleFetch(p0, delay, c \in RetryClasses)
       IN /\ c \in RetryClasses => retryAttempts < MaxRetry
          /\ last' = Last("listDone", c)
          /\ Commit(p1)
          /\ githubInterval' = gh
          /\ notifications' = IF c = "array"
                              THEN UpdateNotifications(notifications, o.body.items)
                              ELSE notifications
          /\ label' = IF label = NoLabel THEN label
                      ELSE IF c = "array" THEN ToString(Len(o.body.items))
                      ELSE IF c = "401" THEN "!"
                      ELSE label
          /\ indicator' = IF c = "array" /\ indicator # "null"
                          THEN Visibility(hideWidget, o.body.items) ELSE indicator
          /\ alert' = IF c = "array"
                      THEN AlertOf(o.body.items, notifications, showAlert) ELSE 0
          /\ appliedCount' = IF c = "array" THEN Len(o.body.items) ELSE appliedCount
    /\ UNCHANGED <<enabled, token, domain, refreshInterval, showAlert, hideWidget,
                   httpSession, menu>>

\* The thread ids of a list of notifications.
Ids(notifs) == {notifs[k] : k \in 1..Len(notifs)}

\* _rebuildNotificationList() with grouping off: one row per notification,
\* the first MAX_MENU_ITEMS of the cached list.
RebuildNotificationList(notifs) ==
    SubSeq(notifs, 1, Min(Len(notifs), MAX_MENU_ITEMS))

\* The menu's 'open-state-changed' handler, for open = true.
MenuOpen ==
    /\ enabled
    /\ menu' = RebuildNotificationList(notifications)
    /\ Commit(Poll)
    /\ alert' = 0
    /\ appliedCount' = appliedCount
    /\ last' = Last("menu", "open")
    /\ UNCHANGED <<enabled, token, domain, refreshInterval, showAlert, hideWidget,
                   notifications, githubInterval, httpSession, label, indicator>>

\* A mark-read request that stops the poll loop, as 'Refresh Now' does.
StartMarkStoppingLoop(p, tok, dom, sess, req) ==
    IF tok = "" \/ sess = 0 THEN p
    ELSE IF ~MessageNew(dom) THEN p
    ELSE [StopLoop(p) EXCEPT !.inflight = Append(@, req)]

\* _markAllRead() and _markThreadRead() up to their await: nothing happens
\* without a token or a session; a null message throws before the try
\* block; or the request req is sent on the current session.
StartMark(p, tok, dom, sess, req) ==
    IF tok = "" \/ sess = 0 THEN p
    ELSE IF ~MessageNew(dom) THEN p
    ELSE [p EXCEPT !.inflight = Append(@, req)]

\* What a call of _markAllRead or _markThreadRead did.
MarkSent(tok, dom, sess) ==
    IF tok = "" \/ sess = 0 THEN "returned"
    ELSE IF ~MessageNew(dom) THEN "threw"
    ELSE "sent"

\* The 'Mark All Read' menu action.
MarkAllRead ==
    /\ enabled
    /\ LET p == StartMark(Poll, token, domain, httpSession,
                          [kind |-> "markAll", aborted |-> FALSE, id |-> 0])
       IN /\ Pending(p) <= MaxPending
          /\ Commit(p)
    /\ last' = Last("markAll", MarkSent(token, domain, httpSession))
    /\ alert' = 0
    /\ appliedCount' = appliedCount
    /\ UNCHANGED <<enabled, token, domain, refreshInterval, showAlert, hideWidget,
                   notifications, githubInterval, httpSession, label, indicator,
                   menu>>

\* A click on the 'Mark as read' button of the menu row of thread x.
MarkThreadRead(x) ==
    /\ enabled
    /\ x \in Ids(menu)
    /\ LET p == StartMark(Poll, token, domain, httpSession,
                          [kind |-> "markOne", aborted |-> FALSE, id |-> x])
       IN /\ Pending(p) <= MaxPending
          /\ Commit(p)
    /\ last' = Last("markOne", MarkSent(token, domain, httpSession))
    /\ alert' = 0
    /\ appliedCount' = appliedCount
    /\ UNCHANGED <<enabled, token, domain, refreshInterval, showAlert, hideWidget,
                   notifications, githubInterval, httpSession, label, indicator,
                   menu>>

\* A success test that takes every response for a success.
ClassifyMarkAnyStatus(o, sess) ==
    CASE o.type = "error" -> "error"
      [] o.type = "response" /\ sess = 0 -> "dropped"
      [] OTHER -> "ok"

\* How _markAllRead and _markThreadRead classify what their await produced.
ClassifyMark(o, sess) ==
    CASE o.type = "error" -> "error"
      [] o.type = "response" /\ sess = 0 -> "dropped"
      [] o.type = "response" /\ sess # 0 /\ o.status \in {205, 200, 204} -> "ok"
      [] OTHER -> "failed"

\* The filter with its test inverted (=== for !==).
WithoutThreadInverted(notifs, threadId) == SelectSeq(notifs, LAMBDA n : n = threadId)

\* this._notifications.filter(n => n.id !== threadId)
WithoutThread(notifs, threadId) == SelectSeq(notifs, LAMBDA n : n # threadId)

\* A mark-all-read that filters like a mark-one-read instead of clearing.
AfterMarkFiltering(req, notifs) == SelectSeq(notifs, LAMBDA n : n # req.id)

\* The cached list after a mark-read request req succeeded.
AfterMark(req, notifs) ==
    IF req.kind = "markAll" THEN <<>> ELSE WithoutThread(notifs, req.id)

\* _markAllRead() or _markThreadRead() resumed after its await, for the
\* i-th pending request and the outcome o.
MarkDone(i, o) ==
    /\ i \in 1..Len(inflight)
    /\ inflight[i].kind \in {"markAll", "markOne"}
    /\ LET req == inflight[i]
           c == ClassifyMark(o, httpSession)
           n == IF c = "ok" THEN AfterMark(req, notifications) ELSE notifications
       IN /\ last' = Last(IF req.kind = "markAll" THEN "markAllDone" ELSE "markOneDone", c)
          /\ Commit([Poll EXCEPT !.inflight = RemoveAt(@, i)])
          /\ notifications' = n
          /\ label' = IF c = "ok" /\ label # NoLabel THEN ToString(Len(n)) ELSE label
          /\ indicator' = IF c = "ok" /\ indicator # "null"
                          THEN Visibility(hideWidget, n) ELSE indicator
          /\ menu' = IF c = "ok" THEN RebuildNotificationList(n) ELSE menu
    /\ alert' = 0
    /\ appliedCount' = appliedCount
    /\ UNCHANGED <<enabled, token, domain, refreshInterval, showAlert, hideWidget,
                   githubInterval, httpSession>>

Enables ==
    \E tok \in Tokens, dom \in Domains, refresh \in RefreshIntervals,
       show \in BOOLEAN, hide \in BOOLEAN :
        Enable(tok, dom, refresh, show, hide)

SettingsChanges ==
    \E key \in SettingKeys, tok \in Tokens, dom \in Domains,
       refresh \in RefreshIntervals, show \in BOOLEAN, hide \in BOOLEAN :
        SettingsChanged(key, tok, dom, refresh, show, hide)

TimerFires == \E t \in timers : TimerFire(t)

\* The scheduler reads the length of a returned list and nothing else of
\* it, so the specification of the whole extension draws the short lists.
PollOutcomes == {o \in Outcomes : Len(o.body.items) <= 1}

ListCompletes == \E i \in 1..Len(inflight) : \E o \in PollOutcomes : ListDone(i, o)

MarkThreadReads == \E x \in Ids(menu) : MarkThreadRead(x)

MarkCompletes == \E i \in 1..Len(inflight) : \E o \in MarkOutcomes : MarkDone(i, o)

Next ==
    \/ Enables
    \/ Disable
    \/ SettingsChanges
    \/ RefreshNow
    \/ TimerFires
    \/ ListCompletes
    \/ MenuOpen
    \/ MarkAllRead
    \/ MarkThreadReads
    \/ MarkCompletes

Spec == Init /\ [][Next]_vars

\* The scheduler on its own: the display settings (show-alert, hide-widget)
\* and the X-Poll-Interval header are held fixed, since no branch of the
\* scheduling code reads them; every class of outcome of a list request
\* remains.
LiveOutcomes ==
    {o \in Outcomes : o.header = <<>> /\ o.body.items \in {<<>>, <<1>>}}

LiveEnables ==
    \E tok \in Tokens, dom \in Domains, refresh \in RefreshIntervals :
        Enable(tok, dom, refresh, FALSE, FALSE)

LiveSettingsChanges ==
    \E key \in {"domain", "token", "refresh-interval"}, tok \in Tokens,
       dom \in Domains, refresh \in RefreshIntervals :
        SettingsChanged(key, tok, dom, refresh, FALSE, FALSE)

LiveListCompletes ==
    \E i \in 1..Len(inflight) : \E o \in LiveOutcomes : ListDone(i, o)

LiveNext ==
    \/ LiveEnables
    \/ Disable
    \/ LiveSettingsChanges
    \/ RefreshNow
    \/ TimerFires
    \/ LiveListCompletes

\* Timers eventually fire and requests eventually resolve.
LiveSpec ==
    Init /\ [][LiveNext]_vars /\ WF_vars(TimerFires) /\ WF_vars(LiveListCompletes)

\* The notification store on its own: the scheduling inputs (domain, refresh
\* interval, X-Poll-Interval header) and the hide-widget setting are held
\* fixed, since no branch of _updateNotifications, _markAllRead or
\* _markThreadRead reads them; every list the server may return and every
\* class of outcome remain.
StoreOutcomes == {o \in Outcomes : o.header = <<>>}

StoreEnables ==
    \E tok \in Tokens, show \in BOOLEAN :
        Enable(tok, "github.com", DEFAULT_GITHUB_INTERVAL, show, FALSE)

StoreSettingsChanges ==
    \E key \in {"token", "show-alert"}, tok \in Tokens, show \in BOOLEAN :
        SettingsChanged(key, tok, domain, refreshInterval, show, hideWidget)

StoreListCompletes ==
    \E i \in 1..Len(inflight) : \E o \in StoreOutcomes : ListDone(i, o)

StoreNext ==
    \/ StoreEnables
    \/ Disable
    \/ StoreSettingsChanges
    \/ RefreshNow
    \/ TimerFires
    \/ StoreListCompletes
    \/ MenuOpen
    \/ MarkAllRead
    \/ MarkThreadReads
    \/ MarkCompletes

StoreSpec == Init /\ [][StoreNext]_vars

\* The mark-read / poll race on its own: one configuration (a token, the
\* default domain and intervals, alerts off), no settings changes, and list
\* requests that fail with a transport error or return the empty list or
\* the list of two threads.
RaceLists == {L \in ServerLists : Len(L) \in {0, 2}}

RaceOutcomes ==
    {o \in Outcomes :
        /\ o.header = <<>>
        /\ \/ o.type = "error"
           \/ o.status = 200 /\ o.body.kind = "array" /\ o.body.items \in RaceLists}

RaceEnable == Enable("ghp", "github.com", DEFAULT_GITHUB_INTERVAL, FALSE, FALSE)

RaceListCompletes ==
    \E i \in 1..Len(inflight) : \E o \in RaceOutcomes : ListDone(i, o)

RaceNext ==
    \/ RaceEnable
    \/ Disable
    \/ RefreshNow
    \/ TimerFires
    \/ RaceListCompletes
    \/ MenuOpen
    \/ MarkAllRead
    \/ MarkThreadReads
    \/ MarkCompletes

\* Timers eventually fire and requests eventually resolve.
RaceSpec ==
    /\ Init /\ [][RaceNext]_vars
    /\ WF_vars(TimerFires) /\ WF_vars(RaceListCompletes) /\ WF_vars(MarkCompletes)

\* _getEffectiveInterval() on its own: the three fields it reads are drawn
\* when the state is set up, and one step evaluates it.
\* Values of _refreshInterval the preferences window can store (60..86400).
DelayUserIntervals == {60, 300, 5000}
\* Values of _githubInterval, which follows the X-Poll-Interval header.
DelayServerIntervals == {30, 60, 100, 4000}

DelayInit ==
    /\ enabled = TRUE
    /\ token = "ghp"
    /\ domain = "github.com"
    /\ refreshInterval \in DelayUserIntervals
    /\ showAlert = FALSE
    /\ hideWidget = FALSE
    /\ notifications = <<>>
    /\ githubInterval \in DelayServerIntervals
    /\ retryAttempts \in 0..MaxDelayRetry
    /\ timeoutId = 0
    /\ httpSession = NewSession
    /\ timers = {}
    /\ armedDelay = 0
    /\ inflight = <<>>
    /\ label = "0"
    /\ indicator = "visible"
    /\ alert = 0
    /\ menu = <<>>
    /\ appliedCount = 0
    /\ last = Last("init", "none")

\* const delay = this._getEffectiveInterval()
DelayApply ==
    /\ last.op = "init"
    /\ armedDelay' = GetEffectiveInterval(retryAttempts, refreshInterval, githubInterval)
    /\ last' = Last("delay", "returned")
    /\ UNCHANGED <<enabled, token, domain, refreshInterval, showAlert, hideWidget,
                   notifications, githubInterval, retryAttempts, timeoutId,
                   httpSession, timers, inflight, label, indicator, alert, menu,
                   appliedCount>>

DelayNext == DelayApply

DelaySpec == DelayInit /\ [][DelayNext]_vars

\* ------------------------------------------------- opening a notification
\* A URL: its host and the segments of its path.  NoUrl is null/undefined.
Url(h, p) == [host |-> h, path |-> p]
NoUrl == Url("", <<>>)

RECURSIVE JoinPath(_)
JoinPath(p) == IF p = <<>> THEN "" ELSE "/" \o Head(p) \o JoinPath(Tail(p))

\* The text of the URL u.
UrlText(u) == "https://" \o u.host \o JoinPath(u.path)

\* The repository of the notifications opened (repository.full_name), and
\* the path segments that consist of digits only.
Repo == "owner/repo"
NumericSegments == {"12345", "42"}

\* Hosts of the 'domain' setting when a notification is opened.
OpenDomains == {"github.com", "ghe.example"}

\* subject.url as the API of the host dom gives it, for the resource at rest.
ApiUrl(dom, rest) ==
    IF dom = "github.com" THEN Url("api.github.com", <<"repos", Repo>> \o rest)
    ELSE Url(dom, <<"api", "v3", "repos", Repo>> \o rest)

\* The notifications a menu row can hold: releases and pull requests of
\* either host, and a subject without a URL.
OpenNotifs ==
    { [type |-> "Release", url |-> ApiUrl(d, <<"releases", "12345">>), repo |-> Repo] :
        d \in OpenDomains }
    \cup { [type |-> "PullRequest", url |-> ApiUrl(d, <<"pulls", "42">>), repo |-> Repo] :
             d \in OpenDomains }
    \cup { [type |-> "Discussion", url |-> NoUrl, repo |-> Repo] }

\* str.replace(from + '/', to + '/') on a path: the first segment equal to
\* from that another segment follows becomes to.
ReplaceSegment(p, from, to) ==
    LET at == {k \in 1..(Len(p) - 1) : p[k] = from}
    IN IF at = {} THEN p
       ELSE [p EXCEPT ![CHOOSE k \in at : \A j \in at : k <= j] = to]

\* The API prefix of the configured host replaced by its browser prefix.
StripApiPrefix(u, dom) ==
    IF dom = "github.com"
    THEN IF u.host = "api.github.com" /\ Len(u.path) >= 2 /\ u.path[1] = "repos"
         THEN Url("github.com", Tail(u.path)) ELSE u
    ELSE IF u.host = dom /\ Len(u.path) >= 4 /\ SubSeq(u.path, 1, 3) = <<"api", "v3", "repos">>
         THEN Url(dom, SubSeq(u.path, 4, Len(u.path))) ELSE u

\* A resolution without the special case for release URLs.
ResolveNotificationUrlPlain(n, dom) ==
    IF n.url # NoUrl
    THEN LET h == StripApiPrefix(n.url, dom)
         IN Url(h.host, ReplaceSegment(ReplaceSegment(h.path, "pulls", "pull"),
                                       "commits", "commit"))
    ELSE IF n.repo # "" THEN Url(dom, <<n.repo>>)
    ELSE Url(dom, <<"notifications">>)

\* _resolveNotificationUrl(notif)
ResolveNotificationUrl(n, dom) ==
    IF n.url # NoUrl
    THEN LET h == StripApiPrefix(n.url, dom)
             u == Url(h.host, ReplaceSegment(ReplaceSegment(h.path, "pulls", "pull"),
                                             "commits", "commit"))
             k == Len(u.path)
         IN IF k >= 2 /\ u.path[k - 1] = "releases" /\ u.path[k] \in NumericSegments
               /\ n.repo # ""
            THEN Url(dom, <<n.repo, "releases">>)
            ELSE u
    ELSE IF n.repo # "" THEN Url(dom, <<n.repo>>)
    ELSE Url(dom, <<"notifications">>)

\* Release resources: the html_url and tag_name of the parsed JSON (NoUrl
\* and "" when absent).
ReleaseBodies ==
    { [kind |-> "none", html |-> NoUrl, tag |-> ""],
      [kind |-> "garbage", html |-> NoUrl, tag |-> ""],
      [kind |-> "json", html |-> NoUrl, tag |-> ""],
      [kind |-> "json", html |-> NoUrl, tag |-> "v1"],
      [kind |-> "json", html |-> Url("github.com", <<Repo, "releases", "tag", "v1">>),
       tag |-> "v1"] }

\* Everything send_and_read_async can resolve to for the release lookup.
ReleaseOutcomes ==
    { [type |-> "error", status |-> 0, body |-> [kind |-> "none", html |-> NoUrl, tag |-> ""]] }
    \cup { [type |-> "response", status |-> 404,
            body |-> [kind |-> "none", html |-> NoUrl, tag |-> ""]] }
    \cup { [type |-> "response", status |-> 200, body |-> b] : b \in ReleaseBodies }

\* _fetchReleaseTagUrl(apiUrl, repoFullName) resumed after its await with
\* the outcome o: the URL it returns, NoUrl for null.
FetchReleaseTagUrl(o, sess, repo, dom) ==
    IF o.type = "error" THEN NoUrl
    ELSE IF sess = 0 THEN NoUrl
    ELSE IF o.status # 200 \/ o.body.kind = "none" THEN NoUrl
    ELSE IF o.body.kind = "garbage" THEN NoUrl
    ELSE IF o.body.html # NoUrl THEN o.body.html
    ELSE IF o.body.tag # "" /\ repo # ""
         THEN Url(dom, <<repo, "releases", "tag", o.body.tag>>)
    ELSE NoUrl

\* A click on the menu row of the notification n: _openSingleNotification(n)
\* up to its await.  A release with a subject URL is looked up first, unless
\* there is no token or session; every other notification is resolved and
\* handed to the browser at once.
OpenSingleNotification(n) ==
    /\ enabled
    /\ LET lookup == n.type = "Release" /\ n.url # NoUrl
           sends == lookup /\ token # "" /\ httpSession # 0
           p == IF sends
                THEN [Poll EXCEPT !.inflight =
                         Append(@, [kind |-> "release", aborted |-> FALSE, notif |-> n])]
                ELSE Poll
       IN /\ Pending(p) <= MaxPending
          /\ Commit(p)
          /\ last' = IF sends THEN Last("open", "sent")
                     ELSE Last("opened", UrlText(ResolveNotificationUrl(n, domain)))
    /\ alert' = 0
    /\ appliedCount' = appliedCount
    /\ UNCHANGED <<enabled, token, domain, refreshInterval, showAlert, hideWidget,
                   notifications, githubInterval, httpSession, label, indicator,
                   menu>>

\* _openSingleNotification resumed after its await, for the i-th pending
\* request and the outcome o of the release lookup: the looked-up URL, or
\* else the resolved one, is handed to the browser.
ReleaseDone(i, o) ==
    /\ i \in 1..Len(inflight)
    /\ inflight[i].kind = "release"
    /\ LET n == inflight[i].notif
           found == FetchReleaseTagUrl(o, httpSession, n.repo, domain)
           url == IF found # NoUrl THEN found ELSE ResolveNotificationUrl(n, domain)
       IN last' = Last("opened", UrlText(url))
    /\ Commit([Poll EXCEPT !.inflight = RemoveAt(@, i)])
    /\ alert' = 0
    /\ appliedCount' = appliedCount
    /\ UNCHANGED <<enabled, token, domain, refreshInterval, showAlert, hideWidget,
                   notifications, githubInterval, httpSession, label, indicator,
                   menu>>

\* Opening notifications on its own: the extension is enabled and disabled
\* with either host and with or without a token, the host and the token
\* are changed, rows are clicked and release lookups resolve.
OpenEnables ==
    \E tok \in Tokens, dom \in OpenDomains :
        Enable(tok, dom, DEFAULT_GITHUB_INTERVAL, FALSE, FALSE)

OpenSettingsChanges ==
    \E key \in {"domain", "token"}, tok \in Tokens, dom \in OpenDomains :
        SettingsChanged(key, tok, dom, refreshInterval, showAlert, hideWidget)

OpenNotifications == \E n \in OpenNotifs : OpenSingleNotification(n)

ReleaseCompletes ==
    \E i \in 1..Len(inflight) : \E o \in ReleaseOutcomes : ReleaseDone(i, o)

OpenNext ==
    \/ OpenEnables
    \/ Disable
    \/ OpenSettingsChanges
    \/ OpenNotifications
    \/ ReleaseCompletes

OpenSpec == Init /\ [][OpenNext]_vars

\* --------------------------------------------------- grouping the menu rows
\* The notifications that are grouped, by thread id: repository.full_name,
\* subject.type and reason, "" where the field is absent.
GroupThreads == 1..4

ThreadRepo(id) ==
    CASE id = 1 -> "a/x" [] id = 2 -> "b/y" [] id = 3 -> "a/x" [] OTHER -> ""

ThreadType(id) ==
    CASE id = 1 -> "Issue" [] id = 2 -> "PullRequest" [] id = 3 -> "PullRequest"
      [] OTHER -> ""

ThreadReason(id) ==
    CASE id = 1 -> "mention" [] id = 2 -> "mention" [] id = 3 -> "subscribed"
      [] OTHER -> ""

\* The values of the 'group-by' setting with which _groupNotifications is called.
GroupKeys == {"repo", "type", "reason"}

\* groupKey: the field selected by key, or its default when absent (??).
GroupKeyOf(id, key) ==
    CASE key = "repo" -> (IF ThreadRepo(id) = "" THEN "Unknown" ELSE ThreadRepo(id))
      [] key = "type" -> (IF ThreadType(id) = "" THEN "Other" ELSE ThreadType(id))
      [] key = "reason" -> (IF ThreadReason(id) = "" THEN "other" ELSE ThreadReason(id))
      [] OTHER -> "All"

\* groupLabel: TYPE_LABELS[groupKey] ?? groupKey, REASON_LABELS[groupKey] ?? groupKey.
GroupLabelOf(gk, key) ==
    CASE key = "type" /\ gk = "PullRequest" -> "Pull Requests"
      [] key = "type" /\ gk = "Issue" -> "Issues"
      [] key = "reason" /\ gk = "mention" -> "Mentioned"
      [] OTHER -> gk

RECURSIVE GroupInto(_, _, _)
\* The loop over the notifications: map is the Map built so far, as its
\* entries in insertion order.
GroupInto(map, items, key) ==
    IF items = <<>> THEN map
    ELSE LET gk == GroupKeyOf(Head(items), key)
             at == {k \in 1..Len(map) : map[k].key = gk}
             has == IF at = {}
                    THEN Append(map, [key |-> gk, label |-> GroupLabelOf(gk, key),
                                      items |-> <<>>])
                    ELSE map
             k == CHOOSE j \in 1..Len(has) : has[j].key = gk
         IN GroupInto([has EXCEPT ![k].items = Append(@, Head(items))],
                      Tail(items), key)

\* A grouping that returns its groups newest first.
GroupNotificationsNewestFirst(items, key) ==
    LET map == GroupInto(<<>>, items, key)
    IN [g \in 1..Len(map) |->
           [label |-> map[Len(map) + 1 - g].label, items |-> map[Len(map) + 1 - g].items]]

\* _groupNotifications(notifications, key): the [label, items] pairs.
GroupNotifications(items, key) ==
    LET map == GroupInto(<<>>, items, key)
    IN [g \in 1..Len(map) |-> [label |-> map[g].label, items |-> map[g].items]]

RECURSIVE GroupRows(_)
\* The notification rows of the groups, in display order.
GroupRows(groups) ==
    IF groups = <<>> THEN <<>> ELSE Head(groups).items \o GroupRows(Tail(groups))

\* _rebuildNotificationList() with grouping by key: the notification rows
\* (the group headers are labels, not rows of a thread).
RebuildGroupedList(notifs, key) ==
    GroupRows(GroupNotifications(SubSeq(notifs, 1, Min(Len(notifs), MAX_MENU_ITEMS)), key))

\* The cached lists that are grouped: up to MaxGroupLen distinct threads in
\* any order.
GroupLists ==
    UNION { {s \in [1..n -> GroupThreads] : \A a, b \in 1..n : a # b => s[a] # s[b]} :
              n \in 0..MaxGroupLen }

\* _groupNotifications on its own: the extension is waiting for its next
\* poll with some list cached and 'group-by' set to a key, and one step
\* rebuilds the menu.
GroupInit ==
    /\ enabled = TRUE
    /\ token = "ghp"
    /\ domain = "github.com"
    /\ refreshInterval = 60
    /\ showAlert = FALSE
    /\ hideWidget = FALSE
    /\ notifications \in GroupLists
    /\ githubInterval = DEFAULT_GITHUB_INTERVAL
    /\ retryAttempts = 0
    /\ timeoutId = 1
    /\ httpSession = NewSession
    /\ timers = {1}
    /\ armedDelay = 0
    /\ inflight = <<>>
    /\ label = ToString(Len(notifications))
    /\ indicator = "visible"
    /\ alert = 0
    /\ menu = <<>>
    /\ appliedCount = Len(notifications)
    /\ \E key \in GroupKeys : last = Last("groupBy", key)

\* The menu's 'open-state-changed' handler, for open = true, with grouping
\* by the key last.res.
GroupApply ==
    /\ last.op = "groupBy"
    /\ menu' = RebuildGroupedList(notifications, last.res)
    /\ last' = Last("grouped", last.res)
    /\ UNCHANGED <<enabled, token, domain, refreshInterval, showAlert, hideWidget,
                   notifications, githubInterval, retryAttempts, timeoutId,
                   httpSession, timers, armedDelay, inflight, label, indicator,
                   alert, appliedCount>>

GroupNext == GroupApply

GroupSpec == GroupInit /\ [][GroupNext]_vars

TypeOK ==
    /\ enabled \in BOOLEAN
    /\ retryAttempts \in 0..MaxRetry
    /\ Cardinality(timers) + Len(inflight) <= MaxPending
    /\ timeoutId \in 0..(MaxPending + 1)

\* ----------------------------------------------------------------- claims
\* List requests awaiting a response that Soup.Session.abort() has not cancelled.
ListPending == SelectSeq(inflight, LAMBDA r : r.kind = "list" /\ ~r.aborted)

\* The step just taken resumed _fetchNotifications after its await.
ListDoneStep == last'.op = "listDone" /\ inflight' # inflight

\* C1: when disable() ran while a list fetch was in flight, the outcome of
\* that fetch (success or failure) has no effect: the cached list, the
\* label, the retry counter and the timers stay as they are, and no alert
\* is sent.
C1_OutcomeAfterDisableHasNoEffect ==
    [][(~enabled /\ ListDoneStep) =>
          /\ notifications' = notifications
          /\ label' = label
          /\ alert' = 0
          /\ retryAttempts' = retryAttempts
          /\ timers' = timers
          /\ timeoutId' = timeoutId]_vars

\* C2: in every reachable state at most one list fetch is awaiting its
\* response.
C2_SingleFlight == Len(ListPending) <= 1

\* C3: in every reachable state at most one poll timer is live.
C3_SingleTimer == Cardinality(timers) <= 1

\* C4: between disable() and the next enable() no poll timer is live and no
\* list fetch is started.
C4_QuietWhileDisabled ==
    ~enabled => (timers = {} /\ last.res # "sent")

\* C5: the result of a list fetch that was in flight when a setting changed
\* does not replace the cached list, does not change the retry counter and
\* leaves the settle timer armed by the change in place.
C5_SettingsChangeSupersedesFetch ==
    [][(enabled /\ last.op = "settings" /\ ListDoneStep) =>
          /\ notifications' = notifications
          /\ retryAttempts' = retryAttempts
          /\ timers' = timers
          /\ timeoutId' = timeoutId]_vars

\* The steps that call _fetchNotifications.
AttemptOps == {"enable", "refresh", "timer"}

\* C6: while the extension is enabled the polling loop never stops: a timer
\* or a list request is always pending, every outcome of a list fetch
\* leaves a timer armed, and from every enabled state _fetchNotifications
\* is called again (or the extension is disabled), given that timers
\* eventually fire and requests eventually resolve.
C6_PollingNeverStops ==
    /\ [](enabled => (timers # {} \/ inflight # <<>>))
    /\ [](enabled /\ last.op = "listDone" => timeoutId \in timers /\ armedDelay > 0)
    /\ (enabled /\ last.op \notin AttemptOps) ~> (~enabled \/ last.op \in AttemptOps)

\* C7: after a successful list fetch the retry counter is 0 and the timer is
\* armed with max(user interval, server interval), however many failures
\* came before.
C7_SuccessArmsNormalInterval ==
    (enabled /\ last = Last("listDone", "array")) =>
        /\ retryAttempts = 0
        /\ armedDelay = Max(refreshInterval, githubInterval)

\* C8: after the k-th consecutive failed list fetch the timer is armed with
\* max(RETRY_INTERVALS[min(k-1, 6)], server interval), k being the retry
\* counter the failure leaves behind.
C8_BackoffSchedule ==
    (enabled /\ last.op = "listDone" /\ last.res \in RetryClasses) =>
        armedDelay = Max(RETRY_INTERVALS[Min(retryAttempts - 1, 6) + 1], githubInterval)

\* C9: a 401 received while the retry counter is 0 leaves the cached list
\* unchanged, makes the retry counter 1, arms the timer with
\* max(60, server interval) and shows the error marker.
C9_UnauthorizedFirstFailure ==
    [][(enabled /\ retryAttempts = 0 /\ ListDoneStep /\ last'.res = "401") =>
          /\ notifications' = notifications
          /\ retryAttempts' = 1
          /\ timeoutId' \in timers'
          /\ armedDelay' = Max(RETRY_INTERVALS[1], githubInterval')
          /\ label' = "!"]_vars

\* C10: a 200 whose body is not a JSON array (unparsable, or JSON of another
\* shape) leaves the cached list unchanged and increments the retry counter.
C10_MalformedCountsAsFailure ==
    [][(enabled /\ ListDoneStep /\ last'.res \in {"unparsable", "nonarray"}) =>
          /\ notifications' = notifications
          /\ retryAttempts' = retryAttempts + 1]_vars

\* The list requests awaiting a response, cancelled ones included.
ListRequests == SelectSeq(inflight, LAMBDA r : r.kind = "list")

\* The statuses _markAllRead and _markThreadRead take for a success.
SUCCESS_STATUSES == {200, 204, 205}

\* The position of the thread v in the list s.
PositionIn(s, v) == CHOOSE k \in 1..Len(s) : s[k] = v

\* C11: when a successful list fetch that returned the array L is applied
\* (the extension has a session, so the response is not dropped), the cached
\* list is L: the same items in the same order, Len(L) of them,
\* so that nothing of the list cached before remains unless L holds it.
C11_FetchReplacesCache ==
    [][ListDoneStep =>
          \A i \in 1..Len(inflight) : \A o \in Outcomes :
              (ListDone(i, o) /\ httpSession # 0 /\ o.type = "response"
                              /\ o.status = 200 /\ o.body.kind = "array") =>
                  /\ notifications' = o.body.items
                  /\ Len(notifications') = Len(o.body.items)
                  /\ Ids(notifications') \subseteq Ids(o.body.items)]_vars

\* A fetch has replaced the list <<3, 1, 2>>, which the menu still shows,
\* by the list <<1>>.
C11_Witness ==
    /\ last = Last("listDone", "array")
    /\ menu = <<3, 1, 2>>
    /\ notifications = <<1>>

\* C12: a step sends a desktop alert exactly when it applies a successful
\* list fetch of n items, n is greater than the length of the list cached
\* before it and alerts are enabled, and the alert carries n; no other step
\* (failed fetch, mark-read, settings change, ...) sends one.
C12_AlertOnlyOnGrowth ==
    [][alert' = IF /\ ListDoneStep
                   /\ last'.res = "array"
                   /\ showAlert
                   /\ Len(notifications') > Len(notifications)
                THEN Len(notifications')
                ELSE 0]_vars

\* A fetch of three items has sent an alert carrying 3.
C12_Witness ==
    /\ last = Last("listDone", "array")
    /\ Len(notifications) = 3
    /\ alert = 3

\* C13: when a mark-one-read request for thread x succeeds while x is in
\* the cached list, the list loses exactly x (one item fewer, x absent, the
\* other items in their order), and the label and the menu rows show the
\* new list at once.
C13_MarkOneRemovesThread ==
    [][\A i \in 1..Len(inflight) : \A o \in MarkOutcomes :
          (/\ MarkDone(i, o)
           /\ inflight[i].kind = "markOne"
           /\ o.type = "response" /\ o.status \in SUCCESS_STATUSES
           /\ httpSession # 0
           /\ inflight[i].id \in Ids(notifications)) =>
              /\ Len(notifications') = Len(notifications) - 1
              /\ Ids(notifications') = Ids(notifications) \ {inflight[i].id}
              /\ \A a, b \in 1..Len(notifications') :
                    a < b => PositionIn(notifications, notifications'[a])
                               < PositionIn(notifications, notifications'[b])
              /\ label' = ToString(Len(notifications'))
              /\ menu' = notifications']_vars

\* Thread 1 has been removed from the list <<3, 1, 2>>.
C13_Witness ==
    /\ last = Last("markOneDone", "ok")
    /\ notifications = <<3, 2>>
    /\ label = "2"
    /\ menu = <<3, 2>>

\* C14: right after a mark-all-read request succeeded the cached list is
\* empty and the label shows 0.
C14_MarkAllClears ==
    last = Last("markAllDone", "ok") => (notifications = <<>> /\ label = "0")

\* A mark-all-read has succeeded while a list fetch was awaiting its response.
C14_Witness ==
    /\ last = Last("markAllDone", "ok")
    /\ ListPending # <<>>
    /\ menu = <<>>

\* C15: a mark-read request whose outcome is not a response with status 200,
\* 204 or 205 (another status, or a transport error) leaves the cached list
\* and the label as they are, and the handler ends without throwing.
C15_MarkFailureChangesNothing ==
    [][\A i \in 1..Len(inflight) : \A o \in MarkOutcomes :
          (/\ MarkDone(i, o)
           /\ ~(o.type = "response" /\ o.status \in SUCCESS_STATUSES)) =>
              /\ notifications' = notifications
              /\ label' = label
              /\ last'.res \in {"error", "failed", "dropped"}]_vars

\* A mark-all-read was answered with a failure status while three
\* notifications were cached.
C15_Witness ==
    /\ last = Last("markAllDone", "failed")
    /\ notifications = <<3, 1, 2>>
    /\ label = "3"

\* C16: starting or completing a mark-read request leaves the poll state as
\* it is: the live timers and the stored handle, the retry counter, the
\* server-advertised interval and the list requests in flight.
C16_MarkLeavesPollState ==
    [][(MarkAllRead \/ MarkThreadReads \/ MarkCompletes) =>
          /\ timers' = timers
          /\ timeoutId' = timeoutId
          /\ retryAttempts' = retryAttempts
          /\ githubInterval' = githubInterval
          /\ SelectSeq(inflight', LAMBDA r : r.kind = "list") = ListRequests]_vars

\* A mark-one-read was started while a timer armed after a failure was live.
C16_Witness ==
    /\ last = Last("markOne", "sent")
    /\ timeoutId \in timers
    /\ retryAttempts > 0

\* C17: right after a 'Refresh Now' in an enabled state a list fetch is in
\* flight and no poll timer is live: the armed timer was cancelled and the
\* fetch started at once.
C17_RefreshNowFetchesAtOnce ==
    (enabled /\ last.op = "refresh") =>
        (last.res = "sent" /\ ListPending # <<>> /\ timers = {})

\* C18: right after enable() the first list fetch is in flight and no timer
\* is armed.
C18_EnableFetchesAtOnce ==
    last.op = "enable" =>
        (last.res = "sent" /\ ListPending # <<>> /\ timers = {} /\ timeoutId = 0)

\* C19: right after a settings change exactly one timer is live, the one
\* the change armed with the 5-second settle delay, and the retry counter
\* is 0; so it is after every change of a burst.
C19_SettingsChangeArmsSettleTimer ==
    (enabled /\ last.op = "settings") =>
        /\ retryAttempts = 0
        /\ armedDelay = SETTLE_DELAY
        /\ timers = {timeoutId}

\* A list request succeeds with the list S and the extension, which has a
\* session, applies it.
PollApplies(S) ==
    /\ httpSession # 0
    /\ \E i \in 1..Len(inflight) : \E o \in Outcomes :
          /\ o.type = "response" /\ o.status = 200
          /\ o.body.kind = "array" /\ o.body.items = S
          /\ ListDone(i, o)

\* A step of the extension left to itself while the server's unread set is
\* S: a timer fires and sends a list request, a list request succeeds with
\* S, or a mark-read request sent earlier completes.
Settled(S) ==
    \/ TimerFires /\ last'.res = "sent"
    \/ PollApplies(S)
    \/ MarkCompletes

\* C20: the mark-read / poll race corrects itself: if from some point on the
\* server's unread set is S, the user does nothing more and the list
\* fetches, which keep coming, succeed, then the cached list eventually
\* equals S and stays equal, whatever a poll or a mark-read did to it before.
C20_RaceSelfCorrects ==
    \A S \in RaceLists :
        (<>[][Settled(S)]_vars /\ []<><<PollApplies(S)>>_vars)
            => <>[](notifications = S)

\* A poll result that still holds thread 1 has overwritten the cache after
\* a mark-one-read had removed thread 1 from it (the menu rebuilt by the
\* mark-one-read shows the list without it).
C20_Witness ==
    /\ last = Last("listDone", "array")
    /\ notifications = <<2, 1>>
    /\ menu = <<2>>

\* C21: in no reachable state is a poll timer live while a list fetch is in
\* flight.
C21_TimerExcludesFetch == ~(timers # {} /\ ListPending # <<>>)

\* C22: for every retry count r >= 1, server interval s and user interval u
\* the delay _getEffectiveInterval returns is at least s, is at least the
\* delay of every smaller retry count from 1 on, and from r = 7 on is the
\* delay of r = 7, which is max(3600, s); for r = 0 it is max(u, s).
C22_DelayMonotoneThenConstant ==
    last.op = "delay" =>
        /\ retryAttempts >= 1 =>
              /\ armedDelay >= githubInterval
              /\ \A r \in 1..retryAttempts :
                    GetEffectiveInterval(r, refreshInterval, githubInterval) <= armedDelay
        /\ retryAttempts >= Len(RETRY_INTERVALS) =>
              /\ armedDelay = GetEffectiveInterval(Len(RETRY_INTERVALS), refreshInterval,
                                                   githubInterval)
              /\ armedDelay = Max(3600, githubInterval)
        /\ retryAttempts = 0 => armedDelay = Max(refreshInterval, githubInterval)

\* The delay was computed past the end of the back-off table, with a user
\* interval above the table's last entry.
C22_Witness ==
    /\ last.op = "delay"
    /\ retryAttempts = 9
    /\ refreshInterval = 5000
    /\ githubInterval = 60
    /\ armedDelay = 3600

\* C23: a successful mark-one-read for a thread that is not in the cached
\* list (a poll dropped it, or an earlier mark-read removed it) is a no-op:
\* the handler ends normally, the cached list and its length stay what they
\* were, and the label shows that length.
C23_MarkAbsentIsNoOp ==
    [][\A i \in 1..Len(inflight) : \A o \in MarkOutcomes :
          (/\ MarkDone(i, o)
           /\ inflight[i].kind = "markOne"
           /\ o.type = "response" /\ o.status \in SUCCESS_STATUSES
           /\ httpSession # 0
           /\ inflight[i].id \notin Ids(notifications)) =>
              /\ last'.res = "ok"
              /\ notifications' = notifications
              /\ Len(notifications') = Len(notifications)
              /\ label' = ToString(Len(notifications))]_vars

\* A mark-one-read of thread 3 has succeeded after a poll had replaced the
\* list <<3, 1, 2>> by <<2, 1>> (no removal of a cached thread leaves <<2, 1>>).
C23_Witness ==
    /\ last = Last("markOneDone", "ok")
    /\ notifications = <<2, 1>>
    /\ label = "2"

C25_ServerIntervalFloor == githubInterval >= 60

\* C26: once a 401 has put the error marker on the label, the marker stays
\* until a successful list fetch is applied: no other step of the enabled
\* extension (failed fetch, mark-read completion, settings change) removes it.
C26_AuthErrorPersists ==
    [][(enabled /\ enabled' /\ label = "!" /\ label' # "!") =>
          (ListDoneStep /\ last'.res = "array")]_vars

\* C27: in every state of the enabled extension the panel indicator is
\* visible exactly when auto-hide is off or the cached list is non-empty;
\* in particular right after a settings change, before any further poll.
C27_VisibilityFollowsCacheAndSetting ==
    enabled =>
        /\ indicator \in {"visible", "hidden"}
        /\ (indicator = "visible") <=> (~hideWidget \/ Len(notifications) > 0)

\* Auto-hide has been switched on while the cache was empty and a list fetch
\* was awaiting its response: the indicator is hidden at once.
C27_Witness ==
    /\ last = Last("settings", "other")
    /\ hideWidget
    /\ notifications = <<>>
    /\ indicator = "hidden"
    /\ ListPending # <<>>

\* C28: at the end of every enable(), the first one and every one that
\* follows a disable(), the retry counter is 0, the server-advertised
\* interval is 60 and the cached list is empty.
C28_EnableResetsPollState ==
    last.op = "enable" =>
        /\ retryAttempts = 0
        /\ githubInterval = 60
        /\ notifications = <<>>

\* enable() has run again and sent its first fetch while a list request of
\* the period before, cancelled by disable(), has not yet been rejected.
C28_Witness ==
    /\ last = Last("enable", "sent")
    /\ Len(ListRequests) = 2
    /\ ListRequests[1].aborted
    /\ Len(ListPending) = 1

\* The release lookup with the outcome o yields no URL.
NoReleaseUrl(o) ==
    \/ o.type = "error"
    \/ o.status # 200
    \/ o.body.kind \in {"none", "garbage"}
    \/ o.body.html = NoUrl /\ o.body.tag = ""

\* C29: when a release notification is opened and its release lookup yields
\* no URL (transport error, status other than 200, no body, unparsable
\* body, a release without html_url and tag_name; or no lookup can be sent
\* for want of a token), the handler ends normally and hands the browser the
\* releases listing page of the repository, not the URL with the numeric id.
C29_ReleaseFallsBackToListing ==
    [][/\ \A i \in 1..Len(inflight) : \A o \in ReleaseOutcomes :
             (ReleaseDone(i, o) /\ NoReleaseUrl(o)) =>
                 /\ last'.op = "opened"
                 /\ last'.res = UrlText(Url(domain, <<inflight[i].notif.repo, "releases">>))
                 /\ last'.res # UrlText(StripApiPrefix(inflight[i].notif.url, domain))
        /\ \A n \in OpenNotifs :
             (OpenSingleNotification(n) /\ n.type = "Release" /\ token = "") =>
                 last' = Last("opened", UrlText(Url(domain, <<n.repo, "releases">>)))]_vars

\* A release lookup that was pending when disable() ran has resolved, and
\* the releases listing page of the enterprise host went to the browser.
C29_Witness ==
    /\ ~enabled
    /\ last = Last("opened", "https://ghe.example/owner/repo/releases")
    /\ token = "ghp"

\* C30: the response to a list fetch of an earlier enable period has no
\* effect on a later one: when it arrives right after the next enable()
\* (the requests that enable() finds cancelled are those of earlier
\* periods), be it a success or a failure, the cached list, the retry
\* counter, the live timers and the stored timer handle of the new period
\* stay as they are.
C30_OldFetchLeavesNewPeriod ==
    [][\A i \in 1..Len(inflight) : \A o \in Outcomes :
          (/\ enabled /\ last.op = "enable"
           /\ inflight[i].kind = "list" /\ inflight[i].aborted
           /\ ListDone(i, o)) =>
              /\ notifications' = notifications
              /\ retryAttempts' = retryAttempts
              /\ timers' = timers
              /\ timeoutId' = timeoutId]_vars

\* C31: in every state of the enabled extension a poll timer is live or a
\* list fetch is awaiting its response.
C31_NeverIdleWhileEnabled ==
    enabled => (timers # {} \/ ListRequests # <<>>)

\* The outcome o of a list request is a failure: a transport error, a status
\* other than 200 (401 included), or a 200 whose body is unparsable or is
\* JSON that is not an array.
FailedFetch(o) ==
    \/ o.type = "error"
    \/ o.status # 200
    \/ o.body.kind \in {"garbage", "object"}

\* C32: a failed list fetch leaves the cached list exactly as it was and
\* sends no alert.
C32_FailedFetchKeepsCache ==
    [][\A i \in 1..Len(inflight) : \A o \in Outcomes :
          (ListDone(i, o) /\ FailedFetch(o)) =>
              /\ notifications' = notifications
              /\ alert' = 0]_vars

\* A 200 whose body is not an array has arrived while three notifications
\* were cached and alerts were on.
C32_Witness ==
    /\ last = Last("listDone", "nonarray")
    /\ notifications = <<3, 1, 2>>
    /\ showAlert
    /\ alert = 0

\* The list request i succeeds with the outcome o, the extension applies
\* it, and the list has as many items as the list of the fetch applied
\* before it.
SameCountFetch(i, o) ==
    /\ ListDone(i, o)
    /\ httpSession # 0
    /\ o.type = "response" /\ o.status = 200 /\ o.body.kind = "array"
    /\ Len(o.body.items) = appliedCount

\* C33 as stated: a successful list fetch that returns as many items as the
\* fetch applied before it sends no alert, whatever mark-read completed in
\* between.
C33_SameCountNeverAlerts ==
    [][\A i \in 1..Len(inflight) : \A o \in Outcomes :
          SameCountFetch(i, o) => alert' = 0]_vars

\* C33 amended: a successful list fetch that returns as many items as the
\* fetch applied before it sends an alert exactly when alerts are on and a
\* mark-read has left the cache with fewer items than that; the alert then
\* carries the count.  The count is compared with the cache, not with the
\* earlier fetch.
C33_SameCountAlertsOnlyAfterShrink ==
    [][\A i \in 1..Len(inflight) : \A o \in Outcomes :
          SameCountFetch(i, o) =>
              alert' = IF showAlert /\ Len(notifications) < Len(o.body.items)
                       THEN Len(o.body.items) ELSE 0]_vars

\* With alerts on, a fetch has returned <<2, 1>> and sent an alert carrying
\* 2 while the menu, rebuilt by a mark-one-read, shows thread 2 alone.
C33_Witness ==
    /\ last = Last("listDone", "array")
    /\ notifications = <<2, 1>>
    /\ appliedCount = 2
    /\ menu = <<2>>
    /\ showAlert
    /\ alert = 2

\* C34: no step sends a request (list, mark-read or release lookup) while
\* the token is empty or there is no session; and a list fetch attempted in
\* that condition by the enabled extension is skipped, leaving the retry
\* counter at 0 and a timer armed with the normal interval
\* max(user interval, server interval).
C34_NoRequestWithoutCredentials ==
    /\ [][Len(inflight') > Len(inflight) => (token' # "" /\ httpSession' # 0)]_vars
    /\ [](enabled /\ last.op \in AttemptOps /\ (token = "" \/ httpSession = 0) =>
             /\ last.res = "skipped"
             /\ retryAttempts = 0
             /\ timers # {}
             /\ armedDelay = Max(refreshInterval, githubInterval))

\* C35: a settings change for a key other than 'domain' and 'token' leaves
\* the session and the requests pending on it as they are; a change of
\* 'domain' or 'token' cancels every request pending on the old session and
\* leaves the extension with a session.
C35_SessionFollowsCredentialKeys ==
    [][(enabled /\ last'.op = "settings") =>
          IF last'.res = "credentials"
          THEN /\ httpSession' # 0
               /\ Len(inflight') = Len(inflight)
               /\ \A k \in 1..Len(inflight') :
                     inflight'[k] = [inflight[k] EXCEPT !.aborted = TRUE]
          ELSE /\ httpSession' = httpSession
               /\ inflight' = inflight]_vars

\* The token or the domain has been changed while a list fetch was awaiting
\* its response: the request is cancelled and a session is in place.
C35_Witness ==
    /\ last = Last("settings", "credentials")
    /\ httpSession # 0
    /\ Len(ListRequests) = 1
    /\ ListPending = <<>>

\* C36: in every state of the enabled extension the label shows the error
\* marker '!' or the decimal length of the cached list, never another number.
C36_LabelShowsCountOrMarker ==
    enabled => (label = "!" \/ label = ToString(Len(notifications)))

\* A 401 has put the error marker on the label while three notifications
\* were cached.
C36_Witness ==
    /\ enabled
    /\ last = Last("listDone", "401")
    /\ label = "!"
    /\ Len(notifications) = 3

\* The groups _groupNotifications returns for the cached list and the key
\* of the last step.
Groups == GroupNotifications(notifications, last.res)

\* C37: for key in {repo, type, reason} the groups partition the input:
\* every notification is in exactly one group and once, the group sizes sum
\* to the input length, the notifications of a group and no others share
\* its key, the groups come in the order in which their keys first appear
\* in the input, and the notifications of a group keep their input order.
C37_GroupingPartitions ==
    last.op = "grouped" =>
        /\ \A k \in 1..Len(notifications) :
              Cardinality({g \in 1..Len(Groups) :
                              notifications[k] \in Ids(Groups[g].items)}) = 1
        /\ Len(GroupRows(Groups)) = Len(notifications)
        /\ Len(menu) = Len(notifications) /\ Ids(menu) = Ids(notifications)
        /\ \A g \in 1..Len(Groups) :
              /\ Groups[g].items # <<>>
              /\ \A a, b \in 1..Len(Groups[g].items) :
                    /\ GroupKeyOf(Groups[g].items[a], last.res)
                          = GroupKeyOf(Groups[g].items[b], last.res)
                    /\ a < b => PositionIn(notifications, Groups[g].items[a])
                                  < PositionIn(notifications, Groups[g].items[b])
        /\ \A g, h \in 1..Len(Groups) :
              g < h =>
                 /\ GroupKeyOf(Groups[g].items[1], last.res)
                       # GroupKeyOf(Groups[h].items[1], last.res)
                 /\ PositionIn(notifications, Groups[g].items[1])
                       < PositionIn(notifications, Groups[h].items[1])

\* The list <<1, 2, 3>> has been grouped by repository: the rows are those
\* of a/x (threads 1 and 3), then that of b/y (thread 2).
C37_Witness ==
    /\ last = Last("grouped", "repo")
    /\ notifications = <<1, 2, 3>>
    /\ menu = <<1, 3, 2>>
    /\ Len(Groups) = 2

\* C38: in every reachable state the stored handle _timeoutId is non-null
\* exactly when a poll timer is live, and it is then the handle of the one
\* live timer.
C38_HandleTracksLiveTimer ==
    /\ (timeoutId # 0) <=> (timers # {})
    /\ timeoutId # 0 => timers = {timeoutId}

====
